---------------------------- MODULE Spec2Model ----------------------------
(***************************************************************************)
(* The Oxford IPS 120-10 magnet power-supply driver                        *)
(* (pymeasure/instruments/oxfordinstruments/ips120_10.py) as a state       *)
(* machine.  The driver is a sequential program: pc is its call stack      *)
(* (labels carry the source line of the statement about to run), and one   *)
(* action runs one statement, i.e. at most one command to the supply.      *)
(* The supply itself is the environment: its registers are variables, and  *)
(* DeviceSweep ramps its output between two driver statements.             *)
(* Fields are whole numbers, in units of 16/MaxField tesla.                *)
(* The input fields of an experiment (pymeasure/experiment/parameters.py)  *)
(* are a second, independent part: one IntegerInputField or                *)
(* FloatInputField object and the assignments to its value property.       *)
(***************************************************************************)
EXTENDS Integers, Sequences, FiniteSets, TLC

\* ------------------------------------------------------------------ bounds
\* Largest field magnitude of the model; the default field range is
\* [-MaxField, MaxField] (16 T in the source).
MaxField == 1
\* Longest training scheme handed to train_magnet.
MaxSteps == 1
\* Largest max_errors / max_wait_time argument of a public wait_for_idle call.
MaxErrArg == 2
MaxWaitArg == 2
\* Longest poll interval (delay) of a public wait_for_idle call.
MaxDelay == 2
\* Most polls of a wait_for_idle call made by the user: enough to use up the
\* largest error budget and the longest wait time.
MaxPolls == (IF MaxErrArg > MaxWaitArg THEN MaxErrArg ELSE MaxWaitArg) + 1
\* Largest minimum / maximum magnitude of an input field; the values assigned
\* to it reach one beyond.
MaxValue == 1

\* ------------------------------------------------------- program constants
\* wait_for_idle(..., max_errors=10, ...)
DEFAULT_MAX_ERRORS == 10
\* _SWITCH_HEATER_DELAY = 20
SWITCH_HEATER_DELAY == 20
\* sleep(10) after the ramp of set_field
POST_RAMP_DELAY == 10
\* wait_for_idle(delay=1, ...)
DEFAULT_DELAY == 1

None == <<>>
Some(v) == <<v>>
Val(x) == x[1]

Fields == -MaxField .. MaxField
\* Arguments of set_field: the negative ones lie outside the range (0, max).
Targets == Fields
Rates == {1}
Activities == {"hold", "to setpoint", "to zero", "clamp"}
\* Switch-heater codes: 0 and 2 are off, 1 is on, 5 stands for any other code.
HeaterCodes == {0, 1, 2, 5}
\* field_range as given to the constructor: the default, or the tuple (0, max).
Ranges == {<<-MaxField, MaxField>>, <<0, MaxField>>}
\* How a status query can fail: the answer holds a character that is no digit
\* (int() raises ValueError), the answer is cut short (v[11] raises
\* IndexError), or the channel itself fails (the adapter's VisaIOError).
QueryFailures == {"ValueError", "IndexError", "VisaIOError"}

VARIABLES
    \* the supply's registers
    switch_heater_status, activity,
    demand_field, persistent_field, field_setpoint,
    \* whether the supply was sweeping when the heater was last switched
    switched_sweeping,
    \* the class attribute _FIELD_RANGE the field_setpoint validator reads
    FIELD_RANGE,
    \* the ways a status query of wait_for_idle can fail on this channel
    faults,
    \* the driver: call stack, top-level call, its outcome, what it sent
    pc, op, outcome, log, pre,
    \* the value the field property returned last in this call
    fld,
    \* locals of set_field / train_magnet
    sf, tm_scheme,
    \* locals and arguments of wait_for_idle
    w,
    \* a second thread of the program using the same driver object: its
    \* call stack, call record and locals while the first one runs
    other,
    \* an input field of an experiment: its class, units, minimum, maximum
    \* and _value
    input_field,
    \* the exception the last assignment to its value raised ("none": it
    \* returned)
    raised

device == <<switch_heater_status, activity,
            demand_field, persistent_field, field_setpoint, switched_sweeping>>
driver == <<pc, op, outcome, log, pre>>
locals == <<fld, sf, tm_scheme, w>>
config == <<FIELD_RANGE, faults>>
\* What no statement of a running call changes.
parameter == <<input_field, raised>>
untouched == <<config, other, parameter>>
vars == <<device, config, driver, locals, other, parameter>>

\* ------------------------------------------------------------------ device
\* The ramp target the supply's activity implies.
SweepTarget ==
    CASE activity = "to setpoint" -> field_setpoint
      [] activity = "to zero" -> 0
      [] OTHER -> demand_field

\* The sweep_status measurement: "at rest" (code 0) or one of the sweeping
\* codes, which the driver never tells apart.
sweep_status == IF demand_field = SweepTarget THEN "at rest" ELSE "sweeping"

\* A field property that always answers with the supply's output.
field_fromDemand == demand_field

\* The field property: persistent field with the heater off, demand field
\* with it on and (with a logged error) for any other code.
field ==
    IF switch_heater_status \in {0, 2} THEN persistent_field
    ELSE IF switch_heater_status \in {1} THEN demand_field
    ELSE demand_field

\* A validator that lets every value through.
truncated_range_unchecked(value, values) == value
\* truncated_range(value, _FIELD_RANGE): the value clamped to the range.
truncated_range(value, values) ==
    IF value < values[1] THEN values[1]
    ELSE IF value > values[2] THEN values[2]
    ELSE value

\* A supply whose ramp never gets anywhere: its status stays "sweeping".
DeviceSweep_stuck ==
    /\ sweep_status # "at rest"
    /\ UNCHANGED <<device, untouched, driver, locals>>

\* The supply ramps one step; with the heater on the magnet follows.
DeviceSweep ==
    /\ sweep_status # "at rest"
    /\ demand_field' = IF demand_field < SweepTarget THEN demand_field + 1
                       ELSE demand_field - 1
    /\ persistent_field' = IF switch_heater_status = 1 THEN demand_field'
                           ELSE persistent_field
    /\ UNCHANGED <<switch_heater_status, activity, field_setpoint,
                   switched_sweeping, untouched, driver, locals>>

\* The switch heater fails: the status digit of the supply's answer turns into
\* a code other than 0, 1 and 2.
HeaterFault ==
    /\ switch_heater_status \in {0, 1, 2}
    /\ switch_heater_status' = 5
    /\ UNCHANGED <<activity, demand_field, persistent_field, field_setpoint,
                   switched_sweeping, untouched, driver, locals>>

\* ----------------------------------------------------------- driver helpers
\* No call is running; the last one's record is kept (Done) until the user
\* has looked at it (Idle).
Idle == pc = <<>> /\ outcome = "idle"
Done == pc = <<>> /\ outcome # "idle"
At(l) == pc # <<>> /\ Head(pc) = l

\* The registers as they are when a top-level call starts.
Snapshot == [heater |-> switch_heater_status, field |-> field,
             setpoint |-> field_setpoint, status |-> sweep_status]
NoSnapshot == [heater |-> 0, field |-> 0, setpoint |-> 0, status |-> "at rest"]

NoSf == [field |-> 0, sweep_rate |-> None, pmc |-> TRUE]
\* wait_for_idle's arguments (should_stop: whether a predicate that may answer
\* True was given) and locals (elapsed is time() - start_time; stopped is the
\* last answer of should_stop()).
WaitFrame(delay, max_errors, max_wait_time, should_stop) ==
    [delay |-> delay, max_errors |-> max_errors, max_wait_time |-> max_wait_time,
     should_stop |-> should_stop,
     error_ct |-> 0, elapsed |-> 0, status |-> "None", stopped |-> FALSE,
     answers |-> <<>>]
NoWait == WaitFrame(DEFAULT_DELAY, Some(DEFAULT_MAX_ERRORS), None, FALSE)

\* No input field has been constructed.
NoInputField ==
    [cls |-> "none", units |-> None, minimum |-> 0, maximum |-> 0,
     _value |-> None]
NoParameter == input_field = NoInputField /\ raised = "none"

\* A thread that is not inside any call of the driver.
IdleThread ==
    [pc |-> <<>>, op |-> [name |-> "none"], outcome |-> "idle", log |-> <<>>,
     pre |-> NoSnapshot, fld |-> None, sf |-> NoSf, tm_scheme |-> <<>>,
     w |-> NoWait]

\* Control moves to label l of the running method.
Goto(l) ==
    /\ pc' = <<l>> \o Tail(pc)
    /\ UNCHANGED outcome
\* The running method returns to its caller, or to the user.
Return ==
    /\ pc' = Tail(pc)
    /\ outcome' = IF Tail(pc) = <<>> THEN "ok" ELSE outcome
\* An exception the calling method catches, to go on with its next statement.
Raise_caught(e) ==
    /\ pc' = Tail(pc)
    /\ outcome' = e
\* An exception nobody catches ends the top-level call.
Raise(e) ==
    /\ pc' = <<>>
    /\ outcome' = e
\* The running method calls the method starting at label l and resumes at r.
Call(l, r) ==
    /\ pc' = <<l, r>> \o Tail(pc)
    /\ UNCHANGED outcome

Sent(entry) == log' = Append(log, entry)

\* A top-level call by the user.
Start(call, l) ==
    /\ Idle
    /\ pc' = <<l>>
    /\ op' = call
    /\ outcome' = "running"
    /\ log' = <<>>
    /\ pre' = Snapshot
    /\ UNCHANGED <<device, untouched>>

\* The user is done with the last call's result.
Resume ==
    /\ Done
    /\ op' = [name |-> "none"]
    /\ outcome' = "idle"
    /\ log' = <<>>
    /\ pre' = NoSnapshot
    /\ fld' = None /\ sf' = NoSf /\ tm_scheme' = <<>> /\ w' = NoWait
    /\ UNCHANGED <<pc, device, untouched>>

\* ----------------------------------------------------------- register writes
\* switch_heater_status = h ("$H%d").  Turning the heater on opens the
\* switch: the magnet then carries the supply's output.
WriteHeater(h) ==
    /\ switch_heater_status' = h
    /\ persistent_field' = IF h = 1 THEN demand_field ELSE persistent_field
    /\ switched_sweeping' = IF h # switch_heater_status
                            THEN sweep_status # "at rest"
                            ELSE switched_sweeping
    /\ Sent(<<"H", h>>)
    /\ UNCHANGED <<activity, demand_field, field_setpoint>>

\* activity = a ("$A%d").
WriteActivity(a) ==
    /\ activity' = a
    /\ Sent(<<"A", a>>)
    /\ UNCHANGED <<switch_heater_status, demand_field, persistent_field,
                   field_setpoint, switched_sweeping>>

\* control_mode = c ("$C%d"); the driver never reads the mode back, so the
\* register itself is not kept.
WriteControl(c) ==
    /\ Sent(<<"C", c>>)
    /\ UNCHANGED device

\* field_setpoint = v ("$J%f"), through the truncated_range validator.
WriteSetpoint(v) ==
    /\ field_setpoint' = truncated_range(v, FIELD_RANGE)
    /\ Sent(<<"J", field_setpoint'>>)
    /\ UNCHANGED <<switch_heater_status, activity, demand_field,
                   persistent_field, switched_sweeping>>

\* sweep_rate = r ("$T%f"); the rate register is not read by the driver.
WriteSweepRate(r) ==
    /\ Sent(<<"T", r>>)
    /\ UNCHANGED device

\* A statement that sends no write.
NoWrite == UNCHANGED <<device, log>>

\* ------------------------------------------------- direct register access
\* ips.field_setpoint = v by the user: one command.
SetFieldSetpoint(v) ==
    /\ Idle
    /\ op' = [name |-> "field_setpoint", value |-> v]
    /\ pre' = Snapshot
    /\ field_setpoint' = truncated_range(v, FIELD_RANGE)
    /\ log' = <<(<<"J", field_setpoint'>>)>>
    /\ outcome' = "ok"
    /\ UNCHANGED <<switch_heater_status, activity, demand_field,
                   persistent_field, switched_sweeping, untouched, pc, locals>>

\* -------------------------------------------------- enable / disable control
CallEnableControl ==
    /\ Start([name |-> "enable_control"], "ec_254")
    /\ fld' = None /\ sf' = NoSf /\ tm_scheme' = <<>> /\ w' = NoWait

ec_254 ==
    /\ At("ec_254")
    /\ WriteControl("RU")
    /\ Goto("ec_257")
    /\ UNCHANGED <<untouched, op, pre, locals>>

ec_257 ==
    /\ At("ec_257")
    /\ NoWrite
    /\ IF activity = "clamp" THEN Goto("ec_258") ELSE Goto("ec_261")
    /\ UNCHANGED <<untouched, op, pre, locals>>

ec_258 ==
    /\ At("ec_258")
    /\ WriteActivity("hold")
    /\ Goto("ec_261")
    /\ UNCHANGED <<untouched, op, pre, locals>>

ec_261 ==
    /\ At("ec_261")
    /\ NoWrite
    /\ fld' = Some(field)
    /\ IF field = 0 THEN Goto("ec_262") ELSE Return
    /\ UNCHANGED <<untouched, op, pre, sf, tm_scheme, w>>

ec_262 ==
    /\ At("ec_262")
    /\ WriteHeater(1)
    /\ Return
    /\ UNCHANGED <<untouched, op, pre, locals>>

CallDisableControl ==
    /\ Start([name |-> "disable_control"], "dc_267")
    /\ fld' = None /\ sf' = NoSf /\ tm_scheme' = <<>> /\ w' = NoWait

\* A disable_control that never refuses.
FieldNotAtZero_unchecked == FALSE
\* `not self.field == 0`
FieldNotAtZero == ~(field = 0)

dc_267 ==
    /\ At("dc_267")
    /\ NoWrite
    /\ IF FieldNotAtZero THEN Raise("MagnetError: field not at 0T")
       ELSE Goto("dc_270")
    /\ fld' = Some(field)
    /\ UNCHANGED <<untouched, op, pre, sf, tm_scheme, w>>

dc_270 ==
    /\ At("dc_270")
    /\ WriteHeater(0)
    /\ Goto("dc_271")
    /\ UNCHANGED <<untouched, op, pre, locals>>

dc_271 ==
    /\ At("dc_271")
    /\ WriteActivity("clamp")
    /\ Goto("dc_272")
    /\ UNCHANGED <<untouched, op, pre, locals>>

dc_272 ==
    /\ At("dc_272")
    /\ WriteControl("LU")
    /\ Return
    /\ UNCHANGED <<untouched, op, pre, locals>>

\* ------------------------------------------------------------ wait_for_idle
\* An error budget that tolerates one failure more.
TooManyErrors_late(error_ct, max_errors) ==
    max_errors # None /\ error_ct > Val(max_errors) + 1
\* error_ct > max_errors, with None for no limit.
TooManyErrors(error_ct, max_errors) ==
    max_errors # None /\ error_ct > Val(max_errors)

\* A timeout that already fires when the elapsed time equals the limit.
TimedOut_early(elapsed, max_wait_time) ==
    max_wait_time # None /\ elapsed >= Val(max_wait_time)
\* time() - start_time > max_wait_time, with None for no limit.
TimedOut(elapsed, max_wait_time) ==
    max_wait_time # None /\ elapsed > Val(max_wait_time)

\* self.wait_for_idle() as the driver's own methods call it: all defaults.
CallWait(r) ==
    /\ Call("wfi_333", r)
    /\ w' = NoWait
    /\ Sent(<<"wait">>)
    /\ UNCHANGED device

\* `except ValueError`: the failures of the status query the loop survives.
Caught == {"ValueError"}

\* A loop that counts the failures in a row: an answered query clears the
\* counter.
Polled_consecutive(resp) ==
    [w EXCEPT !.elapsed = IF w.max_wait_time = None THEN 0 ELSE @ + w.delay,
              !.status = IF resp = "ok" THEN sweep_status ELSE @,
              !.error_ct = IF resp \in Caught THEN @ + 1 ELSE 0,
              !.answers = IF Tail(pc) = <<>> THEN Append(@, resp) ELSE @]

\* The locals after sleep(delay) and the status query answered by resp.  The
\* clock is read only when max_wait_time is given.  answers is the history
\* of the queries of a wait_for_idle called by the user: "ok" for an answered
\* one, the exception for a failed one.
Polled(resp) ==
    [w EXCEPT !.elapsed = IF w.max_wait_time = None THEN 0 ELSE @ + w.delay,
              !.status = IF resp = "ok" THEN sweep_status ELSE @,
              !.error_ct = IF resp \in Caught THEN @ + 1 ELSE @,
              !.answers = IF Tail(pc) = <<>> THEN Append(@, resp) ELSE @]

\* A poll that sends the status query without sleeping first.
PollCommands_noSleep(delay) == << <<"X">> >>
\* What one iteration sends: sleep(delay), then the status query ("X").
PollCommands(delay) == << <<"sleep", delay>>, <<"X">> >>

\* A loop that looks at the error budget before it asks should_stop().
LoopExit_errorsFirst(p, stop) ==
    IF p.status = "at rest" THEN "break"
    ELSE IF TooManyErrors(p.error_ct, p.max_errors)
    THEN "MagnetError: too many exceptions"
    ELSE IF stop THEN "break"
    ELSE IF TimedOut(p.elapsed, p.max_wait_time) THEN "TimeoutError"
    ELSE "continue"
\* A wait that returns after its first poll whatever the status.
LoopExit_noWait(p, stop) == "break"

\* The four exits of an iteration, in the order of the code; stop is the
\* answer of should_stop().
LoopExit(p, stop) ==
    IF p.status = "at rest" THEN "break"
    ELSE IF stop THEN "break"
    ELSE IF TooManyErrors(p.error_ct, p.max_errors)
    THEN "MagnetError: too many exceptions"
    ELSE IF TimedOut(p.elapsed, p.max_wait_time) THEN "TimeoutError"
    ELSE "continue"

\* One iteration of the loop: sleep(delay), the status query (answered, or
\* failing: a ValueError is counted, any other exception leaves the method),
\* then the four exits.  The log of a wait_for_idle called by the user holds
\* what each iteration sends; a nested one is the single entry of CallWait.
wfi_333 ==
    /\ At("wfi_333")
    /\ Tail(pc) = <<>> => Len(log) < MaxPolls * Len(PollCommands(w.delay))
    /\ \E resp \in {"ok"} \cup faults, stop \in BOOLEAN :
        LET p == Polled(resp)
            exit == LoopExit(p, stop) IN
        \* error_ct is unbounded when max_errors is None: the model stops
        \* failing the query there after MaxErrArg failures.
        /\ resp \in Caught /\ w.max_errors = None => w.error_ct < MaxErrArg
        \* should_stop() is called only when the status is not "at rest",
        \* and never after an exception that leaves the method.
        /\ stop => /\ w.should_stop /\ p.status # "at rest"
                   /\ resp \in {"ok"} \cup Caught
        /\ IF resp \notin {"ok"} \cup Caught
           THEN /\ Raise(resp)
                /\ w' = p
           ELSE IF exit = "break"
           THEN /\ Return
                /\ w' = IF Tail(pc) = <<>> THEN [p EXCEPT !.stopped = stop]
                        ELSE NoWait
           ELSE IF exit = "continue"
           THEN /\ Goto("wfi_333")
                /\ w' = [p EXCEPT !.stopped = stop]
           ELSE /\ Raise(exit)
                /\ w' = [p EXCEPT !.stopped = stop]
    /\ log' = IF Tail(pc) = <<>> THEN log \o PollCommands(w.delay) ELSE log
    /\ UNCHANGED <<device, untouched, op, pre, fld, sf, tm_scheme>>

\* ---------------------------------------------------- enable_persistent_mode
CallEnablePersistentMode ==
    /\ Start([name |-> "enable_persistent_mode"], "epm_277")
    /\ fld' = None /\ sf' = NoSf /\ tm_scheme' = <<>> /\ w' = NoWait

\* A mode change that does not look at the sweep status.
NotAtRest_unchecked == FALSE
\* `not self.sweep_status == "at rest"`
NotAtRest == ~(sweep_status = "at rest")

epm_277 ==
    /\ At("epm_277")
    /\ NoWrite
    /\ IF NotAtRest THEN Raise("MagnetError: not at rest")
       ELSE Goto("epm_280")
    /\ UNCHANGED <<untouched, op, pre, locals>>

epm_280 ==
    /\ At("epm_280")
    /\ NoWrite
    /\ IF switch_heater_status \in {0, 2} THEN Return
       ELSE IF switch_heater_status = 1 THEN Goto("epm_284")
       ELSE Raise("SwitchHeaterStatusError")
    /\ UNCHANGED <<untouched, op, pre, locals>>

epm_284 ==
    /\ At("epm_284")
    /\ WriteActivity("hold")
    /\ Goto("epm_285")
    /\ UNCHANGED <<untouched, op, pre, locals>>

epm_285 ==
    /\ At("epm_285")
    /\ WriteHeater(0)
    /\ Goto("epm_287")
    /\ UNCHANGED <<untouched, op, pre, locals>>

\* An enable_persistent_mode without the switch-heater delay.
epm_287_skipped ==
    /\ At("epm_287")
    /\ Goto("epm_288")
    /\ UNCHANGED <<device, log, untouched, op, pre, locals>>

epm_287 ==
    /\ At("epm_287")
    /\ Sent(<<"sleep", SWITCH_HEATER_DELAY>>)
    /\ Goto("epm_288")
    /\ UNCHANGED <<device, untouched, op, pre, locals>>

epm_288 ==
    /\ At("epm_288")
    /\ WriteActivity("to zero")
    /\ Goto("epm_289")
    /\ UNCHANGED <<untouched, op, pre, locals>>

epm_289 ==
    /\ At("epm_289")
    /\ CallWait("epm_end")
    /\ UNCHANGED <<untouched, op, pre, fld, sf, tm_scheme>>

epm_end ==
    /\ At("epm_end")
    /\ NoWrite
    /\ Return
    /\ UNCHANGED <<untouched, op, pre, locals>>

\* --------------------------------------------------- disable_persistent_mode
CallDisablePersistentMode ==
    /\ Start([name |-> "disable_persistent_mode"], "dpm_296")
    /\ fld' = None /\ sf' = NoSf /\ tm_scheme' = <<>> /\ w' = NoWait

dpm_296 ==
    /\ At("dpm_296")
    /\ NoWrite
    /\ IF NotAtRest THEN Raise("MagnetError: not at rest")
       ELSE Goto("dpm_300")
    /\ UNCHANGED <<untouched, op, pre, locals>>

\* A reconciliation that rewrites the set-point every time.
SetpointDiffers_always == TRUE
\* `not self.field == self.field_setpoint`
SetpointDiffers == ~(field = field_setpoint)

dpm_300 ==
    /\ At("dpm_300")
    /\ NoWrite
    /\ fld' = Some(field)
    /\ IF SetpointDiffers THEN Goto("dpm_303") ELSE Goto("dpm_305")
    /\ UNCHANGED <<untouched, op, pre, sf, tm_scheme, w>>

dpm_303 ==
    /\ At("dpm_303")
    /\ fld' = Some(field)
    /\ WriteSetpoint(field)
    /\ Goto("dpm_305")
    /\ UNCHANGED <<untouched, op, pre, sf, tm_scheme, w>>

dpm_305 ==
    /\ At("dpm_305")
    /\ NoWrite
    /\ IF switch_heater_status = 1 THEN Return
       ELSE IF switch_heater_status \in {0, 2} THEN Goto("dpm_309")
       ELSE Raise("SwitchHeaterStatusError")
    /\ UNCHANGED <<untouched, op, pre, locals>>

dpm_309 ==
    /\ At("dpm_309")
    /\ WriteActivity("to setpoint")
    /\ Goto("dpm_310")
    /\ UNCHANGED <<untouched, op, pre, locals>>

\* A disable_persistent_mode that does not wait for the supply's output.
dpm_310_skipped ==
    /\ At("dpm_310")
    /\ Goto("dpm_311")
    /\ UNCHANGED <<device, log, untouched, op, pre, locals>>

dpm_310 ==
    /\ At("dpm_310")
    /\ CallWait("dpm_311")
    /\ UNCHANGED <<untouched, op, pre, fld, sf, tm_scheme>>

dpm_311 ==
    /\ At("dpm_311")
    /\ WriteActivity("hold")
    /\ Goto("dpm_312")
    /\ UNCHANGED <<untouched, op, pre, locals>>

dpm_312 ==
    /\ At("dpm_312")
    /\ WriteHeater(1)
    /\ Goto("dpm_314")
    /\ UNCHANGED <<untouched, op, pre, locals>>

dpm_314 ==
    /\ At("dpm_314")
    /\ Sent(<<"sleep", SWITCH_HEATER_DELAY>>)
    /\ Return
    /\ UNCHANGED <<device, untouched, op, pre, locals>>

\* ----------------------------------------------------------------- set_field
CallSetField(t, rate, pmc) ==
    /\ Start([name |-> "set_field", field |-> t, sweep_rate |-> rate,
              pmc |-> pmc], "sf_370")
    /\ sf' = [field |-> t, sweep_rate |-> rate, pmc |-> pmc]
    /\ fld' = None /\ tm_scheme' = <<>> /\ w' = NoWait

\* A set_field that always goes on to ramp.
FieldNeedsNoChange_unchecked(target) == FALSE
\* `self.field == field`
FieldNeedsNoChange(target) == field = target

sf_370 ==
    /\ At("sf_370")
    /\ NoWrite
    /\ IF FieldNeedsNoChange(sf.field)
       THEN Return /\ sf' = NoSf
       ELSE Goto("sf_373") /\ UNCHANGED sf
    /\ fld' = Some(field)
    /\ UNCHANGED <<untouched, op, pre, tm_scheme, w>>

\* A set_field that leaves persistent mode whether allowed to or not.
MayLeavePersistentMode_ignored(persistent_mode_control) == TRUE
\* `if persistent_mode_control:` in the persistent-mode branch
MayLeavePersistentMode(persistent_mode_control) == persistent_mode_control

\* Any code other than 0, 1 and 2 falls through both branches.
sf_373 ==
    /\ At("sf_373")
    /\ NoWrite
    /\ IF switch_heater_status = 1 THEN Goto("sf_383")
       ELSE IF switch_heater_status \in {0, 2}
       THEN IF MayLeavePersistentMode(sf.pmc) THEN Call("dpm_296", "sf_383")
            ELSE Raise("MagnetError: persistent mode not allowed")
       ELSE Goto("sf_383")
    /\ UNCHANGED <<untouched, op, pre, locals>>

sf_383 ==
    /\ At("sf_383")
    /\ IF sf.sweep_rate # None THEN WriteSweepRate(Val(sf.sweep_rate))
       ELSE NoWrite
    /\ Goto("sf_386")
    /\ UNCHANGED <<untouched, op, pre, locals>>

\* A set_field that ramps to 0 T through the set-point as well.
RampToZero_bySetpoint(target) == FALSE
\* `if field == 0:`
RampToZero(target) == target = 0

sf_386 ==
    /\ At("sf_386")
    /\ IF RampToZero(sf.field)
       THEN WriteActivity("to zero") /\ Goto("sf_392")
       ELSE WriteActivity("to setpoint") /\ Goto("sf_390")
    /\ UNCHANGED <<untouched, op, pre, locals>>

sf_390 ==
    /\ At("sf_390")
    /\ WriteSetpoint(sf.field)
    /\ Goto("sf_392")
    /\ UNCHANGED <<untouched, op, pre, locals>>

sf_392 ==
    /\ At("sf_392")
    /\ CallWait("sf_393")
    /\ UNCHANGED <<untouched, op, pre, fld, sf, tm_scheme>>

sf_393 ==
    /\ At("sf_393")
    /\ Sent(<<"sleep", POST_RAMP_DELAY>>)
    /\ Goto("sf_395")
    /\ UNCHANGED <<device, untouched, op, pre, locals>>

\* A set_field that enables persistent mode at 0 T as well.
EnablePersistentAfterRamp_alsoAtZero(persistent_mode_control, target) ==
    persistent_mode_control
\* A set_field that enables persistent mode only after a ramp to 0 T.
EnablePersistentAfterRamp_onlyAtZero(persistent_mode_control, target) ==
    persistent_mode_control /\ target = 0
\* A set_field that never enables persistent mode after the ramp.
EnablePersistentAfterRamp_never(persistent_mode_control, target) == FALSE
\* `persistent_mode_control and field != 0`
EnablePersistentAfterRamp(persistent_mode_control, target) ==
    persistent_mode_control /\ target # 0

\* enable_persistent_mode() is the last statement: when it returns, so does
\* set_field.
sf_395 ==
    /\ At("sf_395")
    /\ NoWrite
    /\ IF EnablePersistentAfterRamp(sf.pmc, sf.field) THEN Goto("epm_277")
       ELSE Return
    /\ sf' = NoSf
    /\ UNCHANGED <<untouched, op, pre, fld, tm_scheme, w>>

\* -------------------------------------------------------------- train_magnet
Schemes == UNION {[1 .. n -> Targets \X Rates] : n \in 0 .. MaxSteps}

CallTrainMagnet(training_scheme) ==
    /\ Start([name |-> "train_magnet", training_scheme |-> training_scheme],
             "tm_406")
    /\ tm_scheme' = training_scheme
    /\ fld' = None /\ sf' = NoSf /\ w' = NoWait

\* Training steps that may switch persistent mode.
TrainingStepControl_allowed == TRUE
\* `persistent_mode_control=False` of the set_field call in the loop
TrainingStepControl == FALSE

\* self.set_field(field, sweep_rate, persistent_mode_control) inside
\* train_magnet: the call is noted in the log.
CalledSetField(target, sweep_rate, persistent_mode_control) ==
    /\ sf' = [field |-> target, sweep_rate |-> sweep_rate,
              pmc |-> persistent_mode_control]
    /\ Sent(<<"set_field", target, sweep_rate, persistent_mode_control>>)
    /\ UNCHANGED device

\* The for loop: the next (field, rate) pair, or past the loop to set_field(0),
\* the last statement.
tm_406 ==
    /\ At("tm_406")
    /\ IF tm_scheme # <<>>
       THEN /\ CalledSetField(Head(tm_scheme)[1], Some(Head(tm_scheme)[2]),
                              TrainingStepControl)
            /\ tm_scheme' = Tail(tm_scheme)
            /\ Call("sf_370", "tm_406")
       ELSE /\ CalledSetField(0, None, TRUE)
            /\ UNCHANGED tm_scheme
            /\ Goto("sf_370")
    /\ UNCHANGED <<untouched, op, pre, fld, w>>

\* wait_for_idle(delay, max_errors, max_wait_time, should_stop) by the user.
CallWaitForIdle(delay, max_errors, max_wait_time, should_stop) ==
    /\ Start([name |-> "wait_for_idle"], "wfi_333")
    /\ w' = WaitFrame(delay, max_errors, max_wait_time, should_stop)
    /\ fld' = None /\ sf' = NoSf /\ tm_scheme' = <<>>

\* ------------------------------------------------------------- specification
\* After construction: the supply at rest in any state (with the heater on the
\* magnet carries the supply's output), the range as given to the constructor.
Init ==
    /\ switch_heater_status \in HeaterCodes
    /\ activity \in Activities
    /\ demand_field \in Fields
    /\ persistent_field \in Fields
    /\ field_setpoint \in Fields
    /\ switch_heater_status = 1 => persistent_field = demand_field
    /\ sweep_status = "at rest"
    /\ FIELD_RANGE \in Ranges
    /\ faults = {}
    /\ field_setpoint = truncated_range(field_setpoint, FIELD_RANGE)
    /\ pc = <<>>
    /\ op = [name |-> "none"]
    /\ outcome = "idle"
    /\ log = <<>>
    /\ pre = NoSnapshot
    /\ fld = None
    /\ sf = NoSf
    /\ tm_scheme = <<>>
    /\ w = NoWait
    /\ other = IdleThread
    /\ NoParameter
    /\ switched_sweeping = FALSE

UserCall ==
    \/ CallEnableControl
    \/ CallDisableControl
    \/ CallEnablePersistentMode
    \/ CallDisablePersistentMode
    \/ \E t \in Targets, rate \in {None} \cup {Some(r) : r \in Rates},
          pmc \in BOOLEAN : CallSetField(t, rate, pmc)
    \/ \E training_scheme \in Schemes : CallTrainMagnet(training_scheme)
    \/ \E v \in Targets : SetFieldSetpoint(v)
    \/ Resume

\* The statements of enable_control and disable_control, ...
ControlStatements ==
    \/ ec_254 \/ ec_257 \/ ec_258 \/ ec_261 \/ ec_262
    \/ dc_267 \/ dc_270 \/ dc_271 \/ dc_272
\* ... of enable_persistent_mode, disable_persistent_mode, wait_for_idle and
\* set_field, ...
FieldStatements ==
    \/ epm_277 \/ epm_280 \/ epm_284 \/ epm_285 \/ epm_287 \/ epm_288
    \/ epm_289 \/ epm_end
    \/ dpm_296 \/ dpm_300 \/ dpm_303 \/ dpm_305 \/ dpm_309 \/ dpm_310
    \/ dpm_311 \/ dpm_312 \/ dpm_314
    \/ wfi_333
    \/ sf_370 \/ sf_373 \/ sf_383 \/ sf_386 \/ sf_390 \/ sf_392 \/ sf_393
    \/ sf_395
\* ... and of all methods.
Statement == ControlStatements \/ FieldStatements \/ tm_406

Next == UserCall \/ Statement \/ DeviceSweep

Spec == Init /\ [][Next]_vars

\* The statements of enable_persistent_mode, disable_persistent_mode,
\* set_field and train_magnet that send a command (a query or a write); the
\* queries of wait_for_idle are those of wfi_333.
CommandStatements ==
    {"epm_277", "epm_280", "epm_284", "epm_285", "epm_288",
     "dpm_296", "dpm_300", "dpm_303", "dpm_305", "dpm_309", "dpm_311",
     "dpm_312", "sf_370", "sf_373", "sf_386", "sf_390"}
    \cup (IF sf.sweep_rate # None THEN {"sf_383"} ELSE {})

\* The channel fails on the command of the statement about to run: the
\* adapter's exception leaves the method, no method of the driver catches it.
ChannelFailure ==
    /\ pc # <<>> /\ Head(pc) \in CommandStatements
    /\ Raise("VisaIOError")
    /\ UNCHANGED <<device, log, untouched, op, pre, locals>>

\* The four operations on a channel that can fail at any command and garble
\* any status answer, started from rest.
InitAbort ==
    /\ switch_heater_status \in HeaterCodes
    /\ activity \in Activities
    /\ demand_field \in Fields
    /\ persistent_field \in Fields
    /\ field_setpoint \in Fields
    /\ switch_heater_status = 1 => persistent_field = demand_field
    /\ sweep_status = "at rest"
    /\ FIELD_RANGE = <<-MaxField, MaxField>>
    /\ faults = {"ValueError"}
    /\ pc = <<>>
    /\ op = [name |-> "none"]
    /\ outcome = "idle"
    /\ log = <<>>
    /\ pre = NoSnapshot
    /\ fld = None
    /\ sf = NoSf
    /\ tm_scheme = <<>>
    /\ w = NoWait
    /\ other = IdleThread
    /\ NoParameter
    /\ switched_sweeping = FALSE

NextAbort ==
    \/ CallEnablePersistentMode
    \/ CallDisablePersistentMode
    \/ \E t \in Targets, rate \in {None} \cup {Some(r) : r \in Rates},
          pmc \in BOOLEAN : CallSetField(t, rate, pmc)
    \/ \E training_scheme \in {scheme \in Schemes : Len(scheme) <= 1} :
          CallTrainMagnet(training_scheme)
    \/ Resume
    \/ FieldStatements
    \/ tm_406
    \/ DeviceSweep
    \/ ChannelFailure

SpecAbort == InitAbort /\ [][NextAbort]_vars

\* field_range as the constructor takes it: None, a number n (written
\* Some(n)), which stands for (-n, n), or a pair (low, high).
FieldRangeArgs == {None} \cup {Some(n) : n \in 1 .. MaxField} \cup Ranges

\* IPS120_10(..., field_range=field_range): the program constructs one more
\* driver object.  _FIELD_RANGE is a list of the class, written in place, and
\* the field_setpoint validator of every object reads that list.
Construct(field_range) ==
    /\ Idle
    /\ FIELD_RANGE' =
          IF field_range = None THEN FIELD_RANGE
          ELSE IF Len(field_range) = 1
          THEN <<-Val(field_range), Val(field_range)>>
          ELSE field_range
    /\ UNCHANGED <<device, faults, other, driver, locals, parameter>>

\* The program with further driver objects constructed between two calls.
NextShared == Next \/ \E field_range \in FieldRangeArgs : Construct(field_range)

SpecShared == Init /\ [][NextShared]_vars

\* The methods that read the field, on a supply whose switch heater can fail
\* at any moment.
InitHeater == Init /\ FIELD_RANGE = <<-MaxField, MaxField>>

FieldCall ==
    \/ CallEnableControl
    \/ CallDisableControl
    \/ CallEnablePersistentMode
    \/ CallDisablePersistentMode
    \/ \E t \in Targets, rate \in {None} \cup {Some(r) : r \in Rates},
          pmc \in BOOLEAN : CallSetField(t, rate, pmc)
    \/ Resume

NextHeater ==
    \/ FieldCall
    \/ ControlStatements
    \/ FieldStatements
    \/ DeviceSweep
    \/ HeaterFault

SpecHeater == InitHeater /\ [][NextHeater]_vars

\* The processor goes over to the other thread of the program: between two
\* statements (two commands) of the driver, never inside one.
Switch ==
    /\ other' = [pc |-> pc, op |-> op, outcome |-> outcome, log |-> log,
                 pre |-> pre, fld |-> fld, sf |-> sf, tm_scheme |-> tm_scheme,
                 w |-> w]
    /\ pc' = other.pc /\ op' = other.op /\ outcome' = other.outcome
    /\ log' = other.log /\ pre' = other.pre
    /\ fld' = other.fld /\ sf' = other.sf /\ tm_scheme' = other.tm_scheme
    /\ w' = other.w
    /\ UNCHANGED <<device, config, parameter>>

\* Two threads call one method each of one driver object with nothing to keep
\* them apart, on a supply in demand mode holding zero field, its set-point
\* left at the upper end of the range.
InitThreads ==
    /\ Init
    /\ switch_heater_status = 1 /\ activity = "hold"
    /\ demand_field = 0 /\ field_setpoint = MaxField
    /\ FIELD_RANGE = <<-MaxField, MaxField>>

NextThreads ==
    \/ CallDisableControl
    \/ CallEnablePersistentMode
    \/ \E t \in Targets, pmc \in BOOLEAN : CallSetField(t, None, pmc)
    \/ dc_267 \/ dc_270 \/ dc_271 \/ dc_272
    \/ FieldStatements
    \/ DeviceSweep
    \/ Switch

SpecThreads == InitThreads /\ [][NextThreads]_vars

\* One thread calling set_field, enable_persistent_mode and
\* disable_persistent_mode; the program runs on once it has started a call
\* (every statement returns: a command, or a sleep of a fixed time), and a
\* supply that is ramping gets on with it.
NextLive ==
    \/ CallEnablePersistentMode
    \/ CallDisablePersistentMode
    \/ \E t \in Targets, rate \in {None} \cup {Some(r) : r \in Rates},
          pmc \in BOOLEAN : CallSetField(t, rate, pmc)
    \/ Resume
    \/ FieldStatements
    \/ DeviceSweep

SpecLive ==
    /\ InitHeater /\ [][NextLive]_vars
    /\ WF_vars(FieldStatements) /\ WF_vars(DeviceSweep)

\* wait_for_idle called by the user, with any arguments, on a supply in demand
\* mode that may be ramping and whose status answers may be garbled.
InitWait ==
    /\ switch_heater_status = 1
    /\ activity \in Activities
    /\ demand_field \in Fields
    /\ persistent_field = demand_field
    /\ field_setpoint \in Fields
    /\ FIELD_RANGE = <<-MaxField, MaxField>>
    /\ faults = {"ValueError"}
    /\ pc = <<>>
    /\ op = [name |-> "none"]
    /\ outcome = "idle"
    /\ log = <<>>
    /\ pre = NoSnapshot
    /\ fld = None
    /\ sf = NoSf
    /\ tm_scheme = <<>>
    /\ w = NoWait
    /\ other = IdleThread
    /\ NoParameter
    /\ switched_sweeping = FALSE

Optional(S) == {None} \cup {Some(x) : x \in S}

NextWait ==
    \/ \E delay \in DEFAULT_DELAY .. MaxDelay,
          max_errors \in Optional(0 .. MaxErrArg),
          max_wait_time \in Optional(0 .. MaxWaitArg),
          should_stop \in BOOLEAN :
            CallWaitForIdle(delay, max_errors, max_wait_time, should_stop)
    \/ wfi_333
    \/ DeviceSweep
    \/ \E v \in Targets : SetFieldSetpoint(v)
    \/ Resume

SpecWait == InitWait /\ [][NextWait]_vars

\* The same calls on a channel whose status queries can fail in every way.
InitFault ==
    /\ switch_heater_status = 1
    /\ activity \in Activities
    /\ demand_field \in Fields
    /\ persistent_field = demand_field
    /\ field_setpoint \in Fields
    /\ FIELD_RANGE = <<-MaxField, MaxField>>
    /\ faults = QueryFailures
    /\ pc = <<>>
    /\ op = [name |-> "none"]
    /\ outcome = "idle"
    /\ log = <<>>
    /\ pre = NoSnapshot
    /\ fld = None
    /\ sf = NoSf
    /\ tm_scheme = <<>>
    /\ w = NoWait
    /\ other = IdleThread
    /\ NoParameter
    /\ switched_sweeping = FALSE

SpecFault == InitFault /\ [][NextWait]_vars

\* ------------------------------------------------------------ input fields
\* Python numbers.  A finite one is a count of halves (3 is 6 halves, 2.5 is
\* 5 halves), so that int() has something to cut off; a float can also be nan
\* or an infinity.
Finite(h) == [is |-> "finite", halves |-> h]
NaN == [is |-> "nan", halves |-> 0]
PosInf == [is |-> "inf", halves |-> 1]
NegInf == [is |-> "inf", halves |-> -1]
Whole(n) == Finite(2 * n)

\* Python's a < b on numbers: a comparison with nan is False, an infinity
\* lies beyond every finite number.
Beyond == 2 * (MaxValue + 1) + 1
Rank(a) == IF a.is = "finite" THEN a.halves ELSE a.halves * Beyond
Less(a, b) == a.is # "nan" /\ b.is # "nan" /\ Rank(a) < Rank(b)

\* The values assigned: None, a bool, an int, a float, or a string.  A
\* string is what partition(" ") makes of it: the text before the first
\* blank, which reads as an integer literal ("2"), as another float literal
\* ("2.5", "2.0", "nan", "inf") or as neither ("abc"), and the units behind it
\* ("" when there are none).
Wholes == -(MaxValue + 1) .. (MaxValue + 1)
Floats == {Finite(h) : h \in -2 * (MaxValue + 1) .. 2 * (MaxValue + 1)}
          \cup {NaN, PosInf, NegInf}
Units == {"V", "A"}
PyValue(type, num, lit, u) ==
    [type |-> type, num |-> num, lit |-> lit, units |-> u]
Values ==
    {PyValue("NoneType", NaN, "", "")}
    \cup {PyValue("bool", Whole(b), "", "") : b \in {0, 1}}
    \cup {PyValue("int", Whole(n), "", "") : n \in Wholes}
    \cup {PyValue("float", x, "", "") : x \in Floats}
    \cup {PyValue("str", Whole(n), "int", u) :
              n \in Wholes, u \in {""} \cup Units}
    \cup {PyValue("str", x, "float", u) : x \in Floats, u \in {""} \cup Units}
    \cup {PyValue("str", NaN, "word", u) : u \in {""} \cup Units}

\* What a conversion gives: a number, or the exception it raises.
Returned(x) == [raised |-> "none", value |-> x]
Raising(e) == [raised |-> e, value |-> NaN]

\* int(value): cuts a float off towards zero, reads integer literals only,
\* and raises TypeError for None, ValueError for nan and for any other text,
\* OverflowError for an infinity.
Truncated(h) == IF h >= 0 THEN h \div 2 ELSE -((-h) \div 2)
int(v) ==
    CASE v.type = "NoneType" -> Raising("TypeError")
      [] v.type = "str" ->
            IF v.lit = "int" THEN Returned(v.num) ELSE Raising("ValueError")
      [] OTHER ->
            IF v.num.is = "nan" THEN Raising("ValueError")
            ELSE IF v.num.is = "inf" THEN Raising("OverflowError")
            ELSE Returned(Whole(Truncated(v.num.halves)))
\* float(value): reads every float literal, "nan" and "inf" among them.
float(v) ==
    CASE v.type = "NoneType" -> Raising("TypeError")
      [] v.type = "str" ->
            IF v.lit = "word" THEN Raising("ValueError") ELSE Returned(v.num)
      [] OTHER -> Returned(v.num)

\* The classes with the convert of IntegerInputField / FloatInputField:
\* Parameter and Metadata add nothing to convert or to the value setter.
IntegerClasses == {"IntegerInputField", "IntegerParameter", "IntegerMetadata"}
FloatClasses == {"FloatInputField", "FloatParameter", "FloatMetadata"}

\* Units given in the string that are not the units of the field.
UnitsMismatch(f, v) ==
    v.type = "str" /\ v.units # "" /\ Some(v.units) # f.units
\* The range check of both convert methods: value < self.minimum, then
\* value > self.maximum.
BelowMinimum(f, x) == Less(x, Whole(f.minimum))
AboveMaximum(f, x) == Less(Whole(f.maximum), x)
\* convert: units (of a string), then int() or float() (a ValueError is
\* raised anew, any other exception passes through), then the range.
convert(f, v) ==
    IF UnitsMismatch(f, v) THEN Raising("ValueError")
    ELSE LET r == IF f.cls \in IntegerClasses THEN int(v) ELSE float(v) IN
         IF r.raised # "none" THEN r
         ELSE IF BelowMinimum(f, r.value) THEN Raising("ValueError")
         ELSE IF AboveMaximum(f, r.value) THEN Raising("ValueError")
         ELSE r

\* The value setter: self._value = self.convert(value).
SetValue(v) ==
    LET r == convert(input_field, v) IN
    /\ input_field.cls # "none"
    /\ raised' = r.raised
    /\ input_field' = IF r.raised = "none"
                      THEN [input_field EXCEPT !._value = Some(r.value)]
                      ELSE input_field
    /\ UNCHANGED <<device, config, driver, locals, other>>

\* An input field after construction: minimum <= maximum (whole numbers),
\* units or none, and no default or an int default that the value setter
\* took.
InitField ==
    /\ switch_heater_status = 1 /\ activity = "hold"
    /\ demand_field = 0 /\ persistent_field = 0 /\ field_setpoint = 0
    /\ switched_sweeping = FALSE
    /\ FIELD_RANGE = <<-MaxField, MaxField>>
    /\ faults = {}
    /\ pc = <<>>
    /\ op = [name |-> "none"]
    /\ outcome = "idle"
    /\ log = <<>>
    /\ pre = NoSnapshot
    /\ fld = None
    /\ sf = NoSf
    /\ tm_scheme = <<>>
    /\ w = NoWait
    /\ other = IdleThread
    /\ raised = "none"
    /\ \E cls \in IntegerClasses \cup FloatClasses,
          units \in {None, Some("V")},
          minimum \in -MaxValue .. MaxValue, maximum \in -MaxValue .. MaxValue,
          default \in Optional(-MaxValue .. MaxValue) :
          LET f == [cls |-> cls, units |-> units, minimum |-> minimum,
                    maximum |-> maximum, _value |-> None]
              r == convert(f, PyValue("int", Whole(Val(default)), "", ""))
          IN  /\ minimum <= maximum
              /\ default # None => r.raised = "none"
              /\ input_field = IF default = None THEN f
                               ELSE [f EXCEPT !._value = Some(r.value)]

NextField == \E v \in Values : SetValue(v)

SpecField == InitField /\ [][NextField]_vars

\* ==================================================================== claims
IsPrefix(a, b) == Len(a) <= Len(b) /\ a = SubSeq(b, 1, Len(a))
Persistent(h) == h \in {0, 2}
Running(name) == op.name = name /\ outcome # "idle"
Finished(name) == op.name = name /\ Done

\* C1: the switch heater is only switched (a write that changes its status)
\* while the supply's sweep status is "at rest".
C1_HeaterSwitchedOnlyAtRest ==
    [][switch_heater_status' # switch_heater_status
         => sweep_status = "at rest"]_vars

\* C2: disable_control with a field other than 0 raises MagnetError and sends
\* no write; with the field at 0 it writes heater off, activity clamp, control
\* mode local & unlocked, in that order and nothing else.
DisableControlWrites == << <<"H", 0>>, <<"A", "clamp">>, <<"C", "LU">> >>
C2_DisableControl ==
    Running("disable_control") /\ fld # None =>
        IF Val(fld) # 0
        THEN /\ outcome = "MagnetError: field not at 0T"
             /\ log = <<>>
        ELSE /\ outcome \in {"running", "ok"}
             /\ IsPrefix(log, DisableControlWrites)
             /\ outcome = "ok" => log = DisableControlWrites
C2_Witness ==
    /\ Finished("disable_control") /\ outcome = "ok"
    /\ log = DisableControlWrites
C2_WitnessRefused ==
    /\ Finished("disable_control")
    /\ outcome = "MagnetError: field not at 0T" /\ Val(fld) # 0

\* C3 as stated: set_field(target, persistent_mode_control=False) called in
\* persistent mode (heater 0 or 2) fails with the MagnetError "persistent mode
\* not allowed" and sends no write.
C3_Original ==
    /\ Finished("set_field") /\ ~op.pmc /\ Persistent(pre.heater)
    => outcome = "MagnetError: persistent mode not allowed" /\ log = <<>>
\* C3 as amended: it sends no write in any case, and fails with that
\* MagnetError unless the field already equals the target, in which case it
\* returns successfully.
C3_NoControlInPersistentMode ==
    /\ Running("set_field") /\ ~op.pmc /\ Persistent(pre.heater)
    => /\ log = <<>>
       /\ Done => outcome = IF fld = Some(op.field) THEN "ok"
                            ELSE "MagnetError: persistent mode not allowed"
C3_Witness ==
    /\ Finished("set_field") /\ ~op.pmc /\ pre.heater = 2
    /\ op.sweep_rate # None
    /\ outcome = "MagnetError: persistent mode not allowed"

\* C4: set_field with a target equal to the field it reads returns successfully
\* at once and sends no write, whatever the heater status, sweep_rate and
\* persistent_mode_control.
C4_NoOpAtTarget ==
    Running("set_field") /\ fld = Some(op.field) =>
        outcome = "ok" /\ log = <<>>
C4_Witness ==
    /\ Finished("set_field") /\ fld = Some(op.field) /\ outcome = "ok"
    /\ switch_heater_status = 5 /\ op.sweep_rate # None /\ op.pmc

\* C5: enable_persistent_mode sends nothing when the heater is already off;
\* with the heater on and the supply at rest it does exactly: activity hold,
\* heater off, the switch-heater delay, activity to zero, wait_for_idle.
EnablePersistentSteps ==
    << <<"A", "hold">>, <<"H", 0>>, <<"sleep", SWITCH_HEATER_DELAY>>,
       <<"A", "to zero">>, <<"wait">> >>
C5_EnablePersistentMode ==
    Running("enable_persistent_mode") =>
        /\ Persistent(pre.heater) => log = <<>>
        /\ IsPrefix(log, EnablePersistentSteps)
        /\ Done => log = IF pre.heater = 1 /\ outcome = "ok"
                         THEN EnablePersistentSteps ELSE <<>>
C5_Witness ==
    /\ Finished("enable_persistent_mode") /\ outcome = "ok"
    /\ pre.heater = 1 /\ log = EnablePersistentSteps
C5_WitnessNoOp ==
    /\ Finished("enable_persistent_mode") /\ outcome = "ok"
    /\ pre.heater = 0 /\ log = <<>>

\* C6: after a successful disable_persistent_mode called in persistent mode
\* with the supply at rest, field_setpoint equals the persistent field read
\* before the call.
C6_SetpointTracksPersistentField ==
    /\ Finished("disable_persistent_mode") /\ outcome = "ok"
    /\ Persistent(pre.heater) /\ pre.status = "at rest"
    => field_setpoint = pre.field

\* C7 as stated: disable_persistent_mode called with the heater on sends no
\* write at all.
C7_Original ==
    Running("disable_persistent_mode") /\ pre.heater = 1 => log = <<>>
\* C7 as amended: with the heater on it sends no activity and no heater write;
\* called at rest it sends nothing when the field equals the set-point, and
\* otherwise exactly one write: the set-point, set to the field (through the
\* range validator).
C7_DemandModeOnlyReconciles ==
    Running("disable_persistent_mode") /\ pre.heater = 1 =>
        /\ Len(log) <= 1
        /\ \A i \in 1 .. Len(log) : log[i][1] = "J"
        /\ Done /\ pre.status = "at rest" =>
             /\ outcome = "ok"
             /\ log = IF pre.field = pre.setpoint THEN <<>>
                      ELSE << <<"J", truncated_range(pre.field, FIELD_RANGE)>> >>
C7_Witness ==
    /\ Finished("disable_persistent_mode") /\ pre.heater = 1
    /\ pre.status = "at rest" /\ outcome = "ok"
    /\ pre.field # pre.setpoint /\ Len(log) = 1
C7_WitnessNoWrite ==
    /\ Finished("disable_persistent_mode") /\ pre.heater = 1
    /\ pre.status = "at rest" /\ outcome = "ok"
    /\ pre.field = pre.setpoint /\ log = <<>>


\* C8 as stated: wait_for_idle with max_errors = N ends with the MagnetError
\* "too many exceptions" once N + 1 status polls have failed.
C8_Original ==
    /\ Finished("wait_for_idle") /\ w.max_errors # None
    /\ w.error_ct > Val(w.max_errors)
    => outcome = "MagnetError: too many exceptions"
\* C8 as amended: the loop never polls again once N + 1 polls have failed (so
\* no later "at rest" answer is ever read), and the call ends with that
\* MagnetError unless should_stop() answered True at the failing poll, in which
\* case it returns.
C8_TooManyErrors ==
    Running("wait_for_idle") /\ w.max_errors # None =>
        /\ At("wfi_333") => w.error_ct <= Val(w.max_errors)
        /\ w.error_ct <= Val(w.max_errors) + 1
        /\ Done /\ w.error_ct > Val(w.max_errors) =>
             /\ w.status # "at rest"
             /\ outcome = IF w.stopped THEN "ok"
                          ELSE "MagnetError: too many exceptions"
\* max_errors = 2, three failed polls, and the supply has come to rest.
C8_Witness ==
    /\ Finished("wait_for_idle") /\ w.max_errors = Some(2) /\ w.error_ct = 3
    /\ outcome = "MagnetError: too many exceptions"
    /\ sweep_status = "at rest"

\* C9: wait_for_idle with max_wait_time = T on a supply that is never read at
\* rest (no cancellation, error budget not exceeded) raises TimeoutError at the
\* first poll at which the time since the start of the call exceeds T: it
\* never polls on past T, and raises no later than T + delay.
C9_Timeout ==
    Running("wait_for_idle") /\ w.max_wait_time # None =>
        /\ At("wfi_333") => w.elapsed <= Val(w.max_wait_time)
        /\ outcome = "TimeoutError" =>
             /\ w.elapsed > Val(w.max_wait_time)
             /\ w.elapsed <= Val(w.max_wait_time) + w.delay
        /\ /\ Done /\ w.elapsed > Val(w.max_wait_time)
           /\ w.status # "at rest" /\ ~w.stopped
           /\ ~TooManyErrors(w.error_ct, w.max_errors)
           => outcome = "TimeoutError"
C9_Witness ==
    /\ Finished("wait_for_idle") /\ outcome = "TimeoutError"
    /\ w.max_wait_time = Some(2) /\ w.delay = 1 /\ w.elapsed = 3
    /\ w.error_ct > 0

\* C10 as stated: after a successful train_magnet started in demand mode with
\* non-zero steps inside the field range, the heater is off and the field 0.
StepsInRange(training_scheme) ==
    \A i \in 1 .. Len(training_scheme) :
        /\ training_scheme[i][1] # 0
        /\ training_scheme[i][1] =
               truncated_range(training_scheme[i][1], FIELD_RANGE)
SetFieldCalls(training_scheme) ==
    [i \in 1 .. Len(training_scheme) + 1 |->
        IF i <= Len(training_scheme)
        THEN <<"set_field", training_scheme[i][1],
               Some(training_scheme[i][2]), FALSE>>
        ELSE <<"set_field", 0, None, TRUE>>]
IsSetFieldCall(entry) == entry[1] = "set_field"
C11_WitnessHeater ==
    /\ Finished("train_magnet") /\ outcome = "ok"
    /\ \E i \in 1 .. Len(log) : log[i] = <<"H", 1>>

\* C12: set_field with a target outside the configured field range (and other
\* than the field the magnet is at) ends with an error and has sent no command.
OutOfRange(target) == truncated_range(target, FIELD_RANGE) # target
C12_OutOfRangeRejected ==
    Finished("set_field") /\ OutOfRange(op.field) /\ fld # Some(op.field) =>
        outcome # "ok" /\ log = <<>>

\* C13 as stated: a wait_for_idle ended by should_stop() gives the caller a
\* result other than the one of a wait that saw the supply at rest.
C13_Original ==
    Finished("wait_for_idle") /\ w.stopped => outcome # "ok"
\* C13 as amended: when should_stop() answers True after a poll that did not
\* read "at rest", wait_for_idle returns at once and normally, with the same
\* result as a wait that saw the supply at rest.
C13_CancelReturnsNormally ==
    Running("wait_for_idle") /\ w.stopped =>
        /\ Done /\ outcome = "ok"
        /\ w.should_stop /\ w.status # "at rest"
C13_Witness ==
    /\ Finished("wait_for_idle") /\ w.stopped /\ outcome = "ok"
    /\ sweep_status # "at rest" /\ w.error_ct > 0
C13_WitnessAtRest ==
    /\ Finished("wait_for_idle") /\ ~w.stopped /\ outcome = "ok"
    /\ w.should_stop /\ w.status = "at rest"

\* C14: inside wait_for_idle a failed status query, whatever its kind, is only
\* counted: the wait ends with an error only when the error budget or the
\* wait time is used up.
C14_FailedQueryOnlyCounted ==
    Finished("wait_for_idle") /\ outcome # "ok" =>
        \/ outcome = "MagnetError: too many exceptions"
           /\ TooManyErrors(w.error_ct, w.max_errors)
        \/ outcome = "TimeoutError"
           /\ TimedOut(w.elapsed, w.max_wait_time)

\* C15: wait_for_idle sends no write, whatever its arguments and its outcome:
\* all it does is sleep(delay) followed by one sweep-status query, once per
\* iteration, and the heater status and the set-point stay as they were.
C15_WaitOnlyPolls ==
    Running("wait_for_idle") =>
        /\ Len(log) % 2 = 0
        /\ \A i \in 1 .. Len(log) :
               log[i] = IF i % 2 = 1 THEN <<"sleep", w.delay>> ELSE <<"X">>
        /\ w.max_wait_time # None => w.elapsed = (Len(log) \div 2) * w.delay
        /\ w.error_ct <= Len(log) \div 2
        /\ switch_heater_status = pre.heater
        /\ field_setpoint = pre.setpoint
C15_Witness ==
    /\ Finished("wait_for_idle") /\ outcome = "TimeoutError"
    /\ w.delay = 2 /\ Len(log) = 4 /\ w.error_ct = 1
C15_WitnessCancelled ==
    /\ Finished("wait_for_idle") /\ outcome = "ok" /\ w.stopped
    /\ Len(log) = 2 * MaxPolls
C15_WitnessAborted ==
    /\ Finished("wait_for_idle") /\ outcome = "VisaIOError"
    /\ Len(log) > 2

\* C16: enable_persistent_mode and disable_persistent_mode, when the sweep
\* status they read is not "at rest", raise the MagnetError "not at rest" and
\* send and change nothing.
C16_NotAtRestRefused ==
    [][(At("epm_277") \/ At("dpm_296")) /\ pc' # pc
         /\ sweep_status # "at rest"
       => /\ outcome' = "MagnetError: not at rest"
          /\ pc' = <<>>
          /\ log' = log
          /\ op.name \in {"enable_persistent_mode", "disable_persistent_mode"}
                => log' = <<>>
          /\ UNCHANGED device]_vars
C16_Witness ==
    /\ Finished("enable_persistent_mode") /\ pre.heater = 1
    /\ outcome = "MagnetError: not at rest"
    /\ log = <<>> /\ sweep_status # "at rest"
C16_WitnessDisable ==
    /\ Finished("disable_persistent_mode") /\ Persistent(pre.heater)
    /\ outcome = "MagnetError: not at rest"
    /\ log = <<>> /\ sweep_status # "at rest"

\* C17 as stated: after a successful set_field(target, persistent_mode_control
\* = True) with target other than 0 the switch heater is off, whatever the
\* mode and the field at entry.
C17_Original ==
    /\ Finished("set_field") /\ outcome = "ok" /\ op.pmc /\ op.field # 0
    => Persistent(switch_heater_status)
\* C17 as amended: such a call leaves the heater off (status 0, by the heater
\* write of enable_persistent_mode) unless the field it read already equalled
\* the target: then it has sent nothing and the heater is as it was, on
\* included.
C17_PersistentAfterRamp ==
    /\ Finished("set_field") /\ outcome = "ok" /\ op.pmc /\ op.field # 0
    => IF log = <<>>
       THEN fld = Some(op.field) /\ switch_heater_status = pre.heater
       ELSE /\ switch_heater_status = 0
            /\ \E i \in 1 .. Len(log) : log[i] = <<"H", 0>>
            /\ sweep_status = "at rest"
C17_Witness ==
    /\ Finished("set_field") /\ outcome = "ok" /\ op.pmc /\ op.field # 0
    /\ pre.heater = 1 /\ log # <<>> /\ switch_heater_status = 0
    /\ persistent_field = op.field
C17_WitnessNoOp ==
    /\ Finished("set_field") /\ outcome = "ok" /\ op.pmc /\ op.field # 0
    /\ log = <<>> /\ switch_heater_status = 1

C18_WitnessDemand ==
    /\ Finished("set_field") /\ outcome = "ok" /\ op.field = 0 /\ op.pmc
    /\ fld # Some(0) /\ pre.heater = 1
    /\ switch_heater_status = 1 /\ field = 0

C19_WitnessUnchanged ==
    /\ Finished("set_field") /\ op.field = 0 /\ outcome = "ok"
    /\ pre.heater = 1 /\ pre.setpoint # 0 /\ fld # Some(0)
    /\ field_setpoint = pre.setpoint /\ field = 0

\* C20: in a set_field with a target other than 0 (called in demand mode) the
\* set-point is written before activity "to setpoint".
C20_SetpointBeforeActivity ==
    Running("set_field") /\ op.field # 0 /\ pre.heater = 1 =>
        \A j \in 1 .. Len(log) :
            log[j] = <<"A", "to setpoint">> =>
                \E i \in 1 .. j - 1 : log[i][1] = "J"

\* C21: disable_persistent_mode called with the heater off does, after the
\* set-point write of the reconciliation if there is one, exactly: activity
\* "to setpoint", wait_for_idle, activity "hold", heater on, the switch-heater
\* delay; the heater is written only after wait_for_idle has returned.
DisablePersistentSteps ==
    << <<"A", "to setpoint">>, <<"wait">>, <<"A", "hold">>, <<"H", 1>>,
       <<"sleep", SWITCH_HEATER_DELAY>> >>
AfterReconciliation(entries) ==
    IF entries # <<>> /\ entries[1][1] = "J" THEN Tail(entries) ELSE entries
C21_DisablePersistentMode ==
    Running("disable_persistent_mode") /\ Persistent(pre.heater) =>
        /\ IsPrefix(AfterReconciliation(log), DisablePersistentSteps)
        /\ log # <<>> /\ log[1][1] = "J" =>
              /\ pre.field # pre.setpoint
              /\ log[1] = <<"J", truncated_range(pre.field, FIELD_RANGE)>>
        /\ (\E i \in 1 .. Len(log) : log[i][1] = "H") =>
              /\ ~At("wfi_333")
              /\ \E i \in 1 .. Len(log) : log[i] = <<"wait">>
        /\ Done => AfterReconciliation(log) =
                      IF outcome = "ok" THEN DisablePersistentSteps ELSE <<>>
C21_Witness ==
    /\ Finished("disable_persistent_mode") /\ outcome = "ok"
    /\ pre.heater = 2 /\ pre.field # pre.setpoint
    /\ Len(log) = Len(DisablePersistentSteps) + 1
    /\ switch_heater_status = 1
C21_WitnessNoReconciliation ==
    /\ Finished("disable_persistent_mode") /\ outcome = "ok"
    /\ pre.heater = 0 /\ log = DisablePersistentSteps

\* C22: while the switch-heater status is an unexpected code,
\* enable_persistent_mode never goes on to send activity "to zero".
C22_UnexpectedHeaterFatal ==
    [][Running("enable_persistent_mode")
         /\ switch_heater_status \notin {0, 1, 2}
       => log' # Append(log, <<"A", "to zero">>)]_vars

\* C27: every access of the field property answers with the demand field when
\* the heater status is 1 at that moment, with the persistent field when it is
\* 0 or 2, and with the demand field for any other code; the heater status
\* used is the one the supply has at the access.
C27_EffectiveField ==
    [][fld' # fld /\ fld' # None =>
         Val(fld') = CASE switch_heater_status = 1 -> demand_field
                      [] switch_heater_status \in {0, 2} -> persistent_field
                      [] OTHER -> demand_field]_vars
\* Both accesses of the reconciliation: the first with the heater off, the
\* second, after the heater failed, answered with the demand field.
C27_Witness ==
    /\ Running("disable_persistent_mode") /\ Persistent(pre.heater)
    /\ switch_heater_status = 5 /\ demand_field # persistent_field
    /\ pre.field = persistent_field /\ fld = Some(demand_field)
    /\ log # <<>> /\ log[1][1] = "J"
C27_WitnessPersistent ==
    /\ Running("set_field") /\ switch_heater_status = 2
    /\ demand_field # persistent_field /\ fld = Some(persistent_field)

\* C23: set_field called while the heater status is an unexpected code (and
\* the field is not yet the target) ends with an error and has sent neither a
\* sweep rate, a set-point nor an activity.
C23_UnexpectedHeaterRefused ==
    /\ Finished("set_field") /\ pre.heater \notin {0, 1, 2}
    /\ fld # Some(op.field)
    => /\ outcome # "ok"
       /\ \A i \in 1 .. Len(log) : log[i][1] \notin {"T", "J", "A"}

\* C25: every set-point sent to the supply, by a direct write, set_field, the
\* reconciliation of disable_persistent_mode or train_magnet, and whatever
\* value was asked for, lies within the field range; so does the supply's
\* set-point register.
InFieldRange(value) == FIELD_RANGE[1] <= value /\ value <= FIELD_RANGE[2]
C25_SetpointsInRange ==
    /\ \A i \in 1 .. Len(log) : log[i][1] = "J" => InFieldRange(log[i][2])
    /\ InFieldRange(field_setpoint)
C25_Witness ==
    /\ Finished("set_field") /\ outcome = "ok" /\ ~InFieldRange(op.field)
    /\ \E i \in 1 .. Len(log) : log[i] = <<"J", FIELD_RANGE[1]>>
    /\ field_setpoint = FIELD_RANGE[1]
C25_WitnessReconciled ==
    /\ Finished("disable_persistent_mode") /\ outcome = "ok"
    /\ ~InFieldRange(pre.field)
    /\ log # <<>> /\ log[1] = <<"J", FIELD_RANGE[1]>>
C25_WitnessDirect ==
    /\ op.name = "field_setpoint" /\ ~InFieldRange(op.value)
    /\ log = << <<"J", FIELD_RANGE[1]>> >>
C25_WitnessTraining ==
    /\ Finished("train_magnet") /\ Len(op.training_scheme) > 0
    /\ ~InFieldRange(op.training_scheme[1][1])
    /\ \E i \in 1 .. Len(log) : log[i] = <<"J", FIELD_RANGE[1]>>

\* C26: the field range the driver enforces is fixed when the driver object is
\* constructed and never changes afterwards, whatever other driver objects
\* are constructed later.
C26_FieldRangeFixed == [][FIELD_RANGE' = FIELD_RANGE]_vars

\* C24: in enable_persistent_mode, disable_persistent_mode, set_field and
\* train_magnet a fatal condition (a channel failure on a command, too many
\* errors in a wait, not at rest, an unexpected heater status) ends the whole
\* operation in that step: the error is the caller's, the step sends nothing
\* and changes no register, and nothing is sent or written afterwards.
Failed == outcome \notin {"idle", "running", "ok"}
C24_FatalAborts ==
    [][/\ outcome = "running" /\ Failed' =>
            /\ pc' = <<>>
            /\ log' = log
            /\ UNCHANGED device
       /\ Failed =>
            /\ pc' = <<>>
            /\ log' = log \/ (outcome' = "idle" /\ log' = <<>>)
            /\ UNCHANGED <<switch_heater_status, activity, field_setpoint>>]_vars
\* The set-point write of set_field fails: the activity written just before
\* stays, the supply sweeps to the old set-point.
C24_Witness ==
    /\ Finished("set_field") /\ outcome = "VisaIOError"
    /\ pre.heater = 1 /\ log = << <<"A", "to setpoint">> >>
    /\ activity = "to setpoint" /\ field_setpoint # op.field
    /\ sweep_status # "at rest"
C24_WitnessTooManyErrors ==
    /\ Finished("train_magnet")
    /\ outcome = "MagnetError: too many exceptions"
    /\ w.error_ct = DEFAULT_MAX_ERRORS + 1 /\ sweep_status # "at rest"
C24_WitnessNotAtRest ==
    /\ Finished("set_field") /\ outcome = "MagnetError: not at rest"
    /\ log = <<>>
C24_WitnessHeater ==
    /\ Finished("set_field") /\ outcome = "SwitchHeaterStatusError"
    /\ log # <<>>

\* C28: with two operations on the same driver object interleaved, the switch
\* heater gets switched while the supply is sweeping; among these operations,
\* started from rest, that only ever happens while the other thread is inside
\* an operation of its own.
C28_SwitchedSweepingWhenInterleaved ==
    [][switch_heater_status' # switch_heater_status
         /\ sweep_status # "at rest"
       => other.pc # <<>>]_vars
\* enable_persistent_mode has just switched the heater off on a sweeping
\* supply: the other thread's set_field started the ramp after the check of
\* line 277.
C28_Witness ==
    /\ Running("enable_persistent_mode") /\ At("epm_287")
    /\ pre.heater = 1 /\ switch_heater_status = 0
    /\ switched_sweeping
    /\ other.op.name = "set_field" /\ other.pc # <<>>
C28_WitnessDisableControl ==
    /\ Running("disable_control") /\ At("dc_271")
    /\ pre.heater = 1 /\ switch_heater_status = 0
    /\ switched_sweeping
    /\ other.op.name = "set_field" /\ other.pc # <<>>


\* The number of failed queries in a history of answers.
Failures(answers) ==
    Cardinality({i \in DOMAIN answers : answers[i] \in Caught})
\* C30 as stated: the error counter of wait_for_idle counts the failed polls
\* of the call in total, and with max_errors = N the call raises the
\* MagnetError "too many exceptions" on the (N+1)-th failed poll.
C30_Original ==
    /\ Finished("wait_for_idle") /\ w.max_errors # None
    /\ Failures(w.answers) = Val(w.max_errors) + 1
    => outcome = "MagnetError: too many exceptions"
\* C30 as amended: the error counter is the number of failed polls of this
\* call in total, whatever was answered in between (0 at the start of each
\* call); with max_errors = N the loop goes on after up to N failures, the
\* MagnetError is raised at a failed poll that is the (N+1)-th, and the
\* (N+1)-th failed poll ends the call: with that MagnetError, unless
\* should_stop() answered True at that poll, in which case the call returns.
C30_ErrorCounter ==
    Running("wait_for_idle") =>
        /\ w.error_ct = Failures(w.answers)
        /\ At("wfi_333") /\ w.max_errors # None
             => w.error_ct <= Val(w.max_errors)
        /\ outcome = "MagnetError: too many exceptions" =>
             /\ w.max_errors # None
             /\ w.error_ct = Val(w.max_errors) + 1
             /\ w.answers[Len(w.answers)] \in Caught
        /\ Done /\ w.max_errors # None /\ w.error_ct > Val(w.max_errors) =>
             outcome = IF w.stopped THEN "ok"
                       ELSE "MagnetError: too many exceptions"
\* max_errors = 1: a failed poll, an answered one ("sweeping"), and the second
\* failed poll raises.
C30_Witness ==
    /\ Finished("wait_for_idle") /\ w.max_errors = Some(1)
    /\ w.answers = <<"ValueError", "ok", "ValueError">>
    /\ w.error_ct = 2
    /\ outcome = "MagnetError: too many exceptions"
\* max_errors = 2: two failed polls are tolerated and the call returns when
\* the supply is read at rest.
C30_WitnessTolerated ==
    /\ Finished("wait_for_idle") /\ w.max_errors = Some(2)
    /\ w.answers = <<"ValueError", "ValueError", "ok">>
    /\ w.status = "at rest" /\ outcome = "ok"
\* A new call after one that counted failures starts at 0.
C30_WitnessNewCall ==
    /\ Running("wait_for_idle") /\ At("wfi_333")
    /\ w.answers = <<>> /\ w.error_ct = 0


\* C29: with a supply that gets on with its ramps (and so comes to rest after
\* every change of activity) every call of set_field, enable_persistent_mode
\* and disable_persistent_mode ends: it returns or raises.  (With a supply
\* that stays "sweeping" the nested wait_for_idle, called with the defaults,
\* polls on for ever.)
C29_Terminates == (pc # <<>>) ~> (pc = <<>>)
\* set_field has ramped the supply to another field, waiting for it, and has
\* returned.
C29_Witness ==
    /\ Finished("set_field") /\ outcome = "ok"
    /\ pre.heater = 1 /\ pre.field # op.field /\ demand_field = op.field
    /\ \E i \in DOMAIN log : log[i] = <<"wait">>
\* enable_persistent_mode has ramped the supply's output to zero and returned.
C29_WitnessPersistent ==
    /\ Finished("enable_persistent_mode") /\ outcome = "ok"
    /\ pre.heater = 1 /\ pre.field # 0 /\ demand_field = 0
\* A call that ended by raising.
C29_WitnessRaised ==
    /\ Finished("disable_persistent_mode") /\ Failed


\* The stored value of the input field is a number from minimum to maximum.
WithinRange(f) ==
    /\ Val(f._value).is = "finite"
    /\ 2 * f.minimum <= Val(f._value).halves
    /\ Val(f._value).halves <= 2 * f.maximum
\* C31: after any sequence of assignments to the value of an
\* IntegerInputField or FloatInputField (or a Parameter / Metadata subclass)
\* the stored value, if set, lies within [minimum, maximum].
C31_StoredValueInRange ==
    input_field._value # None => WithinRange(input_field)
\* C31, the integer classes: their stored value, if set, is a whole number
\* within [minimum, maximum].
C31_IntegerValueInRange ==
    input_field.cls \in IntegerClasses /\ input_field._value # None =>
        /\ WithinRange(input_field)
        /\ Val(input_field._value).halves % 2 = 0
\* C31, the float classes: their stored value, if set, lies within
\* [minimum, maximum] or is nan.
C31_FloatValueInRangeOrNaN ==
    input_field.cls \in FloatClasses /\ input_field._value # None =>
        WithinRange(input_field) \/ Val(input_field._value) = NaN
\* C31, second half: an assignment that raises (ValueError, or the TypeError
\* and OverflowError that int() and float() let through) leaves the stored
\* value as it was.
C31_RaiseKeepsValue ==
    [][raised' # "none" => input_field' = input_field]_vars
\* An assignment has raised ValueError with a value stored before.
C31_WitnessRaised ==
    /\ raised = "ValueError" /\ input_field._value # None
    /\ input_field.cls \in FloatClasses
\* An IntegerInputField holds its maximum.
C31_WitnessInteger ==
    /\ input_field.cls = "IntegerInputField" /\ raised = "none"
    /\ input_field._value = Some(Whole(input_field.maximum))
    /\ input_field.minimum < input_field.maximum

=============================================================================
